---- MODULE Spec2Model ----
(***************************************************************************)
(* Model of the mcpx-go PyPI shim: install.py (platform resolution,        *)
(* ensure_binary, _extract_binary, _extract_member) and cli.py (main).     *)
(*                                                                         *)
(* Strings that the code transforms character by character (the reported   *)
(* OS and machine names, lower-cased by resolve_platform) are sequences of *)
(* one-character strings.  Archive member names are sequences of path      *)
(* components.  File contents are sequences of chunks, one chunk per       *)
(* write of the streaming copy.                                            *)
(***************************************************************************)
EXTENDS Integers, Sequences, FiniteSets, TLC

\* ---------------------------------------------------------------- bounds
MaxCalls == 3
MaxMembers == 2

\* ------------------------------------------------------ program constants
ModeExe == 493
ModeMan == 420
DefaultMode == 420

DEFAULT_RELEASE_BASE_URL == "https://github.com/lydakis/mcpx/releases/download"
DEFAULT_RELEASE_TAG_PREFIX == "v"

Procs == {1, 2}

\* ------------------------------------------------------------- exceptions
NoErr == [type |-> "none", msg |-> "", detail |-> <<>>]

RuntimeError(m, d) == [type |-> "RuntimeError", msg |-> m, detail |-> d]

OSError(m) == [type |-> "OSError", msg |-> m, detail |-> <<>>]

\* tarfile.ReadError: a TarError, neither an OSError nor a RuntimeError
TarReadError == [type |-> "TarError", msg |-> "not a gzip file", detail |-> <<>>]

\* what urlopen/copyfileobj raise besides HTTPError and URLError:
\* ValueError (unknown url type), http.client.IncompleteRead,
\* http.client.RemoteDisconnected, OSError while writing the temp file
DownloadOtherError == [type |-> "Exception", msg |-> "connection lost", detail |-> <<>>]

\* ------------------------------------------------------ resolve_platform
UpperChars == <<"A","B","C","D","E","F","G","H","I","J","K","L","M",
                "N","O","P","Q","R","S","T","U","V","W","X","Y","Z">>

LowerChars == <<"a","b","c","d","e","f","g","h","i","j","k","l","m",
                "n","o","p","q","r","s","t","u","v","w","x","y","z">>

LowerChar(c) ==
  IF \E i \in 1..26 : UpperChars[i] = c
    THEN LowerChars[CHOOSE i \in 1..26 : UpperChars[i] = c]
    ELSE c

\* str.lower()
Lower(s) == [i \in 1..Len(s) |-> LowerChar(s[i])]

os_map(k) ==
  IF k = <<"d","a","r","w","i","n">> THEN "darwin"
  ELSE IF k = <<"l","i","n","u","x">> THEN "linux"
  ELSE "?"

arch_map(k) ==
  IF k = <<"x","8","6","_","6","4">> THEN "amd64"
  ELSE IF k = <<"a","m","d","6","4">> THEN "amd64"
  ELSE IF k = <<"a","r","m","6","4">> THEN "arm64"
  ELSE IF k = <<"a","a","r","c","h","6","4">> THEN "arm64"
  ELSE "?"

\* resolve_platform with the two checks in the other order
resolve_platform_ArchFirst(system, machine) ==
  LET os_name == Lower(system)
      mach == Lower(machine)
  IN  IF arch_map(mach) = "?"
        THEN [ok |-> FALSE, goos |-> "", goarch |-> "",
              err |-> RuntimeError("unsupported architecture", mach)]
      ELSE IF os_map(os_name) = "?"
        THEN [ok |-> FALSE, goos |-> "", goarch |-> "",
              err |-> RuntimeError("unsupported platform", os_name)]
      ELSE [ok |-> TRUE, goos |-> os_map(os_name), goarch |-> arch_map(mach),
            err |-> NoErr]

resolve_platform(system, machine) ==
  LET os_name == Lower(system)
      mach == Lower(machine)
  IN  IF os_map(os_name) = "?"
        THEN [ok |-> FALSE, goos |-> "", goarch |-> "",
              err |-> RuntimeError("unsupported platform", os_name)]
      ELSE IF arch_map(mach) = "?"
        THEN [ok |-> FALSE, goos |-> "", goarch |-> "",
              err |-> RuntimeError("unsupported architecture", mach)]
      ELSE [ok |-> TRUE, goos |-> os_map(os_name), goarch |-> arch_map(mach),
            err |-> NoErr]

\* values platform.system() can report
RawSystems ==
  { <<"D","a","r","w","i","n">>, <<"L","i","n","u","x">>,
    <<"W","i","n","d","o","w","s">>, <<"l","i","n","u","x">>,
    <<"D","A","R","W","I","N">>, <<"F","r","e","e","B","S","D">>,
    <<"J","a","v","a">>, <<>> }

\* values platform.machine() can report
RawMachines ==
  { <<"x","8","6","_","6","4">>, <<"A","M","D","6","4">>,
    <<"a","m","d","6","4">>, <<"a","r","m","6","4">>,
    <<"A","R","M","6","4">>, <<"a","a","r","c","h","6","4">>,
    <<"i","3","8","6">>, <<"a","r","m","v","7","l">>, <<>> }

\* ----------------------------------------------------- release_asset_url
package_version == "0.0.0"

\* str.rstrip("/") on a string given as a sequence of pieces
RStripSlash(base) ==
  LET n == CHOOSE k \in 0..Len(base) :
             /\ \A i \in (k + 1)..Len(base) : base[i] = "/"
             /\ (k > 0 => base[k] # "/")
  IN SubSeq(base, 1, n)

\* os.environ.get(name, default), an unset variable being <<>>
EnvGet(value, default) == IF value = <<>> THEN default ELSE value

release_asset_url(base_env, prefix_env, version, goos, goarch) ==
  LET base == RStripSlash(EnvGet(base_env, <<DEFAULT_RELEASE_BASE_URL>>))
      tag_prefix == EnvGet(prefix_env, <<DEFAULT_RELEASE_TAG_PREFIX>>)
  IN base \o <<"/">> \o tag_prefix \o <<version, "/">>
       \o <<"mcpx_", version, "_", goos, "_", goarch, ".tar.gz">>

\* ------------------------------------------------------------ filesystem
NoFile == [exists |-> FALSE, data |-> <<>>, mode |-> 0]

\* owner execute bit (0o100)
HasExec(mode) == (mode \div 64) % 2 = 1

\* open(path, "wb"): creates the file with the default mode, or truncates
\* an existing one and keeps its mode
OpenWb(f) ==
  [exists |-> TRUE, data |-> <<>>,
   mode |-> IF f.exists THEN f.mode ELSE DefaultMode]

\* write one chunk at offset off (0-based) of a file that another writer
\* may have truncated meanwhile: the gap reads as zeros
WriteAt(data, off, chunk) ==
  [i \in 1..(IF Len(data) > off + 1 THEN Len(data) ELSE off + 1) |->
     IF i = off + 1 THEN chunk
     ELSE IF i <= Len(data) THEN data[i]
     ELSE 0]

\* --------------------------------------------------------------- archives
Entry(n, f, d, r) == [name |-> n, isfile |-> f, data |-> d, readable |-> r]

\* Path(item.name).name
BaseName(path) == IF Len(path) = 0 THEN "" ELSE path[Len(path)]

NoMember == Entry(<<>>, FALSE, <<>>, FALSE)

\* a lookup that forgets item.isfile()
MatchesAnyType(item, base) == BaseName(item.name) = base

\* "item.isfile() and Path(item.name).name == ..."
Matches(item, base) == item.isfile /\ BaseName(item.name) = base

\* next((item for item in tar.getmembers() if ...), None)
FindMember(members, base) ==
  IF \E i \in 1..Len(members) : Matches(members[i], base)
    THEN members[CHOOSE i \in 1..Len(members) :
                   /\ Matches(members[i], base)
                   /\ \A j \in 1..(i - 1) : ~Matches(members[j], base)]
    ELSE NoMember

EntryPool ==
  { Entry(<<"mcpx">>, TRUE, <<1, 2>>, TRUE),
    Entry(<<"bin", "mcpx">>, TRUE, <<3>>, TRUE),
    Entry(<<"mcpx">>, FALSE, <<>>, TRUE),
    Entry(<<"man", "man1", "mcpx.1">>, TRUE, <<7, 8>>, TRUE),
    Entry(<<"mcpx.1">>, TRUE, <<9>>, FALSE),
    Entry(<<"README">>, TRUE, <<5>>, TRUE),
    Entry(<<"dist", "mcpx">>, TRUE, <<4>>, FALSE) }

SeqsUpTo(S, n) == UNION { [1..k -> S] : k \in 0..n }

\* ok = FALSE: tarfile.open / getmembers raises (not a gzip file, truncated)
Archives ==
  { [ok |-> TRUE, members |-> m] : m \in SeqsUpTo(EntryPool, MaxMembers) }
  \cup { [ok |-> FALSE, members |-> <<>>] }

\* the archive published for package_version on this platform
ReleaseArchive ==
  [ok |-> TRUE,
   members |-> << Entry(<<"mcpx">>, TRUE, <<1, 2>>, TRUE),
                  Entry(<<"man", "man1", "mcpx.1">>, TRUE, <<7>>, TRUE) >>]

\* what a completed download can leave in the temporary file: the release
\* archive, a silently truncated body, or an archive without the binary
DownloadBodies ==
  { ReleaseArchive,
    [ok |-> FALSE, members |-> <<>>],
    [ok |-> TRUE, members |-> << Entry(<<"README">>, TRUE, <<5>>, TRUE) >>] }

\* ------------------------------------------------------------ environment
BinaryPath == "<cache_root>/mcpx-go/0.0.0/mcpx"

FallbackPath == "<PATH>/mcpx"

\* the process environment of one invocation: MCPX_GO_SKIP_DOWNLOAD,
\* MCPX_GO_RELEASE_BASE_URL, what platform reports, and whether
\* shutil.which("mcpx") finds a binary
Envs ==
  [ skip : {"unset", "1", "0"},
    base : { <<>>, <<"http://mirror.test/releases", "/", "/">> },
    plat : { << <<"L","i","n","u","x">>, <<"x","8","6","_","6","4">> >>,
             << <<"W","i","n","d","o","w","s">>, <<"A","M","D","6","4">> >> },
    which : BOOLEAN ]

\* sys.argv of a launcher run
SysArgvs == { <<"mcpx">>, <<"mcpx", "--help">>, <<"mcpx", "srv", "tool">> }

\* ------------------------------------------------------------------ state
VARIABLES
  fs_bin,     \* the file at binary_path()
  fs_man,     \* the file at manpage_path()
  cacheDir,   \* TRUE when binary_path().parent exists
  dataRoot,   \* "writable", or "blocked" (a path component is not a directory)
  tmpOnDisk,  \* ids of the calls whose temporary archive file exists
  calls,      \* number of calls started so far
  budget,     \* calls each process may still start
  frame,      \* per process: position and locals of the running call
  platIn,     \* <<platform.system(), platform.machine()>> given to resolve_platform
  platOut     \* <<its result>>, or <<>> while the call is pending

vars == << fs_bin, fs_man, cacheDir, dataRoot, tmpOnDisk, calls, budget,
           frame, platIn, platOut >>

Snapshot == [bin |-> fs_bin, man |-> fs_man, cacheDir |-> cacheDir, tmp |-> tmpOnDisk]

IdleFrame ==
  [ pc |-> "idle", caller |-> "none", force |-> FALSE,
    env |-> [skip |-> "unset", base |-> <<>>,
             plat |-> << <<"L","i","n","u","x">>, <<"x","8","6","_","6","4">> >>,
             which |-> FALSE],
    sysargv |-> <<>>, callId |-> 0,
    archive |-> [ok |-> FALSE, members |-> <<>>],
    member |-> NoMember, dest |-> "bin", off |-> 0,
    err |-> NoErr, docFail |-> NoErr, net |-> 0,
    snap |-> [bin |-> NoFile, man |-> NoFile, cacheDir |-> FALSE, tmp |-> {}],
    ret |-> NoFile, acquired |-> FALSE,
    outcome |-> "none", execd |-> <<>>, stderr |-> <<>>, exit |-> 0 ]

\* the previous call of this process is over (or there was none)
CallOver(f) ==
  \/ f.pc \in {"idle", "replaced", "main_returned", "main_uncaught"}
  \/ f.caller = "api" /\ f.pc \in {"eb_returned", "eb_raised"}

\* ---------------------------------------------------------- ensure_binary
CacheHitInverted(f, forced) == f.exists /\ forced

\* "if target.exists() and not force"
CacheHit(f, forced) == f.exists /\ ~forced

\* platform resolved before the opt-out flag is looked at
PreflightErrorPlatformFirst(e) ==
  IF ~resolve_platform(e.plat[1], e.plat[2]).ok
    THEN resolve_platform(e.plat[1], e.plat[2]).err
  ELSE IF e.skip = "1"
    THEN RuntimeError("bundled binary download skipped by MCPX_GO_SKIP_DOWNLOAD=1", <<>>)
  ELSE NoErr

\* lines 118-121: the opt-out flag, then the platform
PreflightError(e) ==
  IF e.skip = "1"
    THEN RuntimeError("bundled binary download skipped by MCPX_GO_SKIP_DOWNLOAD=1", <<>>)
  ELSE IF ~resolve_platform(e.plat[1], e.plat[2]).ok
    THEN resolve_platform(e.plat[1], e.plat[2]).err
  ELSE NoErr

Url(e) ==
  release_asset_url(e.base, <<>>, package_version,
                    resolve_platform(e.plat[1], e.plat[2]).goos,
                    resolve_platform(e.plat[1], e.plat[2]).goarch)

\* a caller invokes ensure_binary(force)
CallEnsureBinary(p, forced, e) ==
  /\ CallOver(frame[p])
  /\ budget[p] > 0
  /\ budget' = [budget EXCEPT ![p] = @ - 1]
  /\ calls' = calls + 1
  /\ frame' = [frame EXCEPT ![p] =
       [IdleFrame EXCEPT !.pc = "eb_check", !.caller = "api", !.force = forced,
                         !.env = e, !.callId = calls + 1, !.snap = Snapshot]]
  /\ UNCHANGED << fs_bin, fs_man, cacheDir, dataRoot, tmpOnDisk, platIn, platOut >>

\* the launcher starts: main() reads sys.argv and calls ensure_binary()
CallMain(p, sysargv, e) ==
  /\ CallOver(frame[p])
  /\ budget[p] > 0
  /\ budget' = [budget EXCEPT ![p] = @ - 1]
  /\ calls' = calls + 1
  /\ frame' = [frame EXCEPT ![p] =
       [IdleFrame EXCEPT !.pc = "eb_check", !.caller = "main", !.force = FALSE,
                         !.env = e, !.sysargv = sysargv,
                         !.callId = calls + 1, !.snap = Snapshot]]
  /\ UNCHANGED << fs_bin, fs_man, cacheDir, dataRoot, tmpOnDisk, platIn, platOut >>

\* lines 114-128: cache check, opt-out, platform, mkdir, temporary file
EnsureCheck(p) ==
  LET f == frame[p] IN
  /\ f.pc = "eb_check"
  /\ IF CacheHit(fs_bin, f.force)
       THEN /\ frame' = [frame EXCEPT ![p] =
                 [f EXCEPT !.pc = "eb_returned", !.ret = fs_bin, !.acquired = TRUE]]
            /\ UNCHANGED << cacheDir, tmpOnDisk >>
     ELSE IF PreflightError(f.env) # NoErr
       THEN /\ frame' = [frame EXCEPT ![p] =
                 [f EXCEPT !.pc = "eb_raised", !.err = PreflightError(f.env)]]
            /\ UNCHANGED << cacheDir, tmpOnDisk >>
     ELSE \E io \in {"ok", "mkdir_fails", "mktemp_fails"} :
            /\ cacheDir' = (cacheDir \/ io # "mkdir_fails")
            /\ tmpOnDisk' = IF io = "ok" THEN tmpOnDisk \cup {f.callId} ELSE tmpOnDisk
            /\ frame' = [frame EXCEPT ![p] =
                 IF io = "ok" THEN [f EXCEPT !.pc = "eb_download"]
                 ELSE [f EXCEPT !.pc = "eb_raised", !.err = OSError(io)]]
  /\ UNCHANGED << fs_bin, fs_man, dataRoot, calls, budget, platIn, platOut >>

\* lines 130-138: urlopen + copy into the temporary file
Download(p) ==
  LET f == frame[p] IN
  /\ f.pc = "eb_download"
  /\ \/ \E body \in DownloadBodies :
          /\ frame' = [frame EXCEPT ![p] =
               [f EXCEPT !.pc = "x_open", !.archive = body, !.net = @ + 1]]
          /\ UNCHANGED tmpOnDisk
     \/ \E cause \in {"HTTP 404", "HTTP 500"} :
          /\ tmpOnDisk' = tmpOnDisk \ {f.callId}
          /\ frame' = [frame EXCEPT ![p] =
               [f EXCEPT !.pc = "eb_raised", !.net = @ + 1,
                         !.err = RuntimeError("failed to download", Url(f.env) \o <<cause>>)]]
     \/ \E cause \in {"Name or service not known", "Connection refused"} :
          /\ tmpOnDisk' = tmpOnDisk \ {f.callId}
          /\ frame' = [frame EXCEPT ![p] =
               [f EXCEPT !.pc = "eb_raised", !.net = @ + 1,
                         !.err = RuntimeError("failed to download", Url(f.env) \o <<cause>>)]]
     \/ /\ frame' = [frame EXCEPT ![p] =
               [f EXCEPT !.pc = "eb_raised", !.net = @ + 1, !.err = DownloadOtherError]]
        /\ UNCHANGED tmpOnDisk
  /\ UNCHANGED << fs_bin, fs_man, cacheDir, dataRoot, calls, budget, platIn, platOut >>

\* ------------------------------------------------------- _extract_binary
SwallowedOSErrorOnly(e) == e.type = "OSError"

\* "except (OSError, RuntimeError): pass" around the man page step
Swallowed(e) == e.type \in {"OSError", "RuntimeError"}

\* an exception e raised inside _extract_member
ExtractRaise(f, e) ==
  IF f.dest = "man" /\ Swallowed(e)
    THEN [f EXCEPT !.pc = "x_done", !.docFail = e]
    ELSE [f EXCEPT !.pc = "x_raised", !.err = e,
                   !.docFail = IF f.dest = "man" THEN e ELSE @]

ModeForAlwaysExe(d) == ModeExe

\* the mode argument of the two _extract_member calls
ModeFor(d) == IF d = "bin" THEN ModeExe ELSE ModeMan

\* lines 91-97: tarfile.open, look the binary member up
XOpen(p) ==
  LET f == frame[p]
      m == FindMember(f.archive.members, "mcpx")
  IN
  /\ f.pc = "x_open"
  /\ frame' = [frame EXCEPT ![p] =
       IF ~f.archive.ok
         THEN [f EXCEPT !.pc = "x_raised", !.err = TarReadError]
       ELSE IF m = NoMember
         THEN [f EXCEPT !.pc = "x_raised",
                        !.err = RuntimeError("archive did not contain mcpx binary", <<>>)]
       ELSE [f EXCEPT !.pc = "em_open", !.member = m, !.dest = "bin"]]
  /\ UNCHANGED << fs_bin, fs_man, cacheDir, dataRoot, tmpOnDisk, calls, budget,
                  platIn, platOut >>

\* lines 80-85: extractfile, mkdir(parents), open("wb")
EMOpen(p) ==
  LET f == frame[p] IN
  /\ f.pc = "em_open"
  /\ IF ~f.member.readable
       THEN /\ frame' = [frame EXCEPT ![p] =
                 ExtractRaise(f, RuntimeError("failed to read from archive", f.member.name))]
            /\ UNCHANGED << fs_bin, fs_man, cacheDir >>
       ELSE \E io \in {"ok", "mkdir_fails", "open_fails"} :
            /\ (f.dest = "man" /\ dataRoot = "blocked") => io = "mkdir_fails"
            /\ IF io = "ok"
                 THEN /\ frame' = [frame EXCEPT ![p] = [f EXCEPT !.pc = "em_write", !.off = 0]]
                      /\ fs_bin' = IF f.dest = "bin" THEN OpenWb(fs_bin) ELSE fs_bin
                      /\ fs_man' = IF f.dest = "man" THEN OpenWb(fs_man) ELSE fs_man
                 ELSE /\ frame' = [frame EXCEPT ![p] = ExtractRaise(f, OSError(io))]
                      /\ UNCHANGED << fs_bin, fs_man >>
            /\ cacheDir' = (cacheDir \/ (f.dest = "bin" /\ io # "mkdir_fails"))
  /\ UNCHANGED << dataRoot, tmpOnDisk, calls, budget, platIn, platOut >>

\* line 86: one chunk of shutil.copyfileobj, or the write fails
EMWrite(p) ==
  LET f == frame[p] IN
  /\ f.pc = "em_write"
  /\ f.off < Len(f.member.data)
  /\ \/ /\ frame' = [frame EXCEPT ![p] = [f EXCEPT !.off = @ + 1]]
        /\ fs_bin' = IF f.dest = "bin"
                       THEN [fs_bin EXCEPT !.data = WriteAt(@, f.off, f.member.data[f.off + 1])]
                       ELSE fs_bin
        /\ fs_man' = IF f.dest = "man"
                       THEN [fs_man EXCEPT !.data = WriteAt(@, f.off, f.member.data[f.off + 1])]
                       ELSE fs_man
     \/ /\ frame' = [frame EXCEPT ![p] = ExtractRaise(f, OSError("write_fails"))]
        /\ UNCHANGED << fs_bin, fs_man >>
  /\ UNCHANGED << cacheDir, dataRoot, tmpOnDisk, calls, budget, platIn, platOut >>

\* line 87: close, then output_path.chmod(mode)
EMChmod(p) ==
  LET f == frame[p] IN
  /\ f.pc = "em_write"
  /\ f.off = Len(f.member.data)
  /\ \/ /\ frame' = [frame EXCEPT ![p] =
               [f EXCEPT !.pc = IF f.dest = "bin" THEN "x_man" ELSE "x_done"]]
        /\ fs_bin' = IF f.dest = "bin" THEN [fs_bin EXCEPT !.mode = ModeFor(f.dest)] ELSE fs_bin
        /\ fs_man' = IF f.dest = "man" THEN [fs_man EXCEPT !.mode = ModeFor(f.dest)] ELSE fs_man
     \/ /\ frame' = [frame EXCEPT ![p] = ExtractRaise(f, OSError("chmod_fails"))]
        /\ UNCHANGED << fs_bin, fs_man >>
  /\ UNCHANGED << cacheDir, dataRoot, tmpOnDisk, calls, budget, platIn, platOut >>

\* lines 101-107: look the man page member up
XMan(p) ==
  LET f == frame[p]
      m == FindMember(f.archive.members, "mcpx.1")
  IN
  /\ f.pc = "x_man"
  /\ frame' = [frame EXCEPT ![p] =
       IF m = NoMember THEN [f EXCEPT !.pc = "x_done"]
       ELSE [f EXCEPT !.pc = "em_open", !.member = m, !.dest = "man"]]
  /\ UNCHANGED << fs_bin, fs_man, cacheDir, dataRoot, tmpOnDisk, calls, budget,
                  platIn, platOut >>

\* lines 140-145: finally unlink the temporary file; return or re-raise
EnsureFinish(p) ==
  LET f == frame[p] IN
  /\ f.pc \in {"x_done", "x_raised"}
  /\ f.caller \in {"api", "main"}
  /\ tmpOnDisk' = tmpOnDisk \ {f.callId}
  /\ frame' = [frame EXCEPT ![p] =
       IF f.pc = "x_done"
         THEN [f EXCEPT !.pc = "eb_returned", !.ret = fs_bin, !.acquired = TRUE]
         ELSE [f EXCEPT !.pc = "eb_raised"]]
  /\ UNCHANGED << fs_bin, fs_man, cacheDir, dataRoot, calls, budget, platIn, platOut >>

\* ------------------------------------------------------------ cli.main
\* sys.argv[1:]
Argv(sysargv) == Tail(sysargv)

\* os.execv needs an existing file with an execute bit; it can still fail
\* (exec format error, noexec mount)
CanExec(f) == f.exists /\ HasExec(f.mode)

\* line 19: _exec(str(binary), argv)
MainExec(p) ==
  LET f == frame[p] IN
  /\ f.pc = "eb_returned"
  /\ f.caller = "main"
  /\ \/ /\ CanExec(fs_bin)
        /\ frame' = [frame EXCEPT ![p] =
               [f EXCEPT !.pc = "replaced", !.outcome = "exec_primary",
                         !.execd = <<BinaryPath, BinaryPath>> \o Argv(f.sysargv)]]
     \/ /\ frame' = [frame EXCEPT ![p] =
               [f EXCEPT !.pc = "main_except", !.err = OSError("execv_fails")]]
  /\ UNCHANGED << fs_bin, fs_man, cacheDir, dataRoot, tmpOnDisk, calls, budget,
                  platIn, platOut >>

\* lines 20-26: except Exception: which, exec the fallback or report
MainFallback(p) ==
  LET f == frame[p] IN
  /\ f.caller = "main"
  /\ f.pc \in {"eb_raised", "main_except"}
  /\ IF f.env.which
       THEN \/ frame' = [frame EXCEPT ![p] =
                 [f EXCEPT !.pc = "replaced", !.outcome = "exec_fallback",
                           !.execd = <<FallbackPath, FallbackPath>> \o Argv(f.sysargv)]]
            \/ frame' = [frame EXCEPT ![p] =
                 [f EXCEPT !.pc = "main_uncaught", !.outcome = "uncaught",
                           !.err = OSError("execv_fails")]]
       ELSE frame' = [frame EXCEPT ![p] =
                 [f EXCEPT !.pc = "main_returned", !.outcome = "diagnostic",
                           !.stderr = Append(@, <<"mcpx: ", f.err.msg>> \o f.err.detail \o <<"\n">>),
                           !.exit = 1]]
  /\ UNCHANGED << fs_bin, fs_man, cacheDir, dataRoot, tmpOnDisk, calls, budget,
                  platIn, platOut >>

\* ------------------------------------------------------ resolve_platform
ResolvePlatform ==
  /\ platOut = <<>>
  /\ platOut' = << resolve_platform(platIn[1], platIn[2]) >>
  /\ UNCHANGED << fs_bin, fs_man, cacheDir, dataRoot, tmpOnDisk, calls, budget,
                  frame, platIn >>

\* -------------------------------------------------------- specifications
InitCommon ==
  /\ fs_man = NoFile
  /\ tmpOnDisk = {}
  /\ calls = 0
  /\ platIn = << <<>>, <<>> >>
  /\ platOut = << resolve_platform(<<>>, <<>>) >>

\* one process making up to MaxCalls calls, one after the other, of
\* ensure_binary or of the launcher, on an empty cache
Init ==
  /\ InitCommon
  /\ fs_bin = NoFile
  /\ cacheDir = FALSE
  /\ dataRoot \in {"writable", "blocked"}
  /\ budget = [p \in Procs |-> IF p = 1 THEN MaxCalls ELSE 0]
  /\ frame = [p \in Procs |-> IdleFrame]

Extraction(p) ==
  \/ XOpen(p)
  \/ EMOpen(p)
  \/ EMWrite(p)
  \/ EMChmod(p)
  \/ XMan(p)

Acquisition(p) ==
  \/ EnsureCheck(p)
  \/ Download(p)
  \/ Extraction(p)
  \/ EnsureFinish(p)

Next ==
  \E p \in Procs :
    \/ \E forced \in BOOLEAN, e \in Envs : CallEnsureBinary(p, forced, e)
    \/ \E a \in SysArgvs, e \in Envs : CallMain(p, a, e)
    \/ Acquisition(p)
    \/ MainExec(p)
    \/ MainFallback(p)

Spec == Init /\ [][Next]_vars

\* two invocations of ensure_binary(force=False) for the same version racing
\* on an empty cache
InitConc ==
  /\ InitCommon
  /\ fs_bin = NoFile
  /\ cacheDir = FALSE
  /\ dataRoot \in {"writable", "blocked"}
  /\ budget = [p \in Procs |-> 1]
  /\ frame = [p \in Procs |-> IdleFrame]

NextConc ==
  \E p \in Procs :
    \/ \E e \in Envs : CallEnsureBinary(p, FALSE, e)
    \/ Acquisition(p)

SpecConc == InitConc /\ [][NextConc]_vars

\* _extract_binary(archive_path, output_path) called directly, as the unit
\* tests do, on any archive and any prior state of the two destinations
OldBin == [exists |-> TRUE, data |-> <<6, 6, 6>>, mode |-> ModeExe]

OldMan == [exists |-> TRUE, data |-> <<6>>, mode |-> ModeMan]

InitExtract ==
  /\ tmpOnDisk = {}
  /\ calls = 0
  /\ platIn = << <<>>, <<>> >>
  /\ platOut = << resolve_platform(<<>>, <<>>) >>
  /\ fs_bin \in {NoFile, OldBin}
  /\ fs_man \in {NoFile, OldMan}
  /\ cacheDir = fs_bin.exists
  /\ dataRoot \in {"writable", "blocked"}
  /\ budget = [p \in Procs |-> 0]
  /\ \E a \in Archives :
       frame = [p \in Procs |->
         IF p = 1
           THEN [IdleFrame EXCEPT !.pc = "x_open", !.caller = "test", !.archive = a,
                                  !.snap = [bin |-> fs_bin, man |-> fs_man,
                                            cacheDir |-> cacheDir, tmp |-> {}]]
           ELSE IdleFrame]

NextExtract == \E p \in Procs : Extraction(p)

SpecExtract == InitExtract /\ [][NextExtract]_vars

\* resolve_platform on every reported pair
InitPlatform ==
  /\ fs_bin = NoFile
  /\ fs_man = NoFile
  /\ cacheDir = FALSE
  /\ dataRoot = "writable"
  /\ tmpOnDisk = {}
  /\ calls = 0
  /\ budget = [p \in Procs |-> 0]
  /\ frame = [p \in Procs |-> IdleFrame]
  /\ platIn \in RawSystems \X RawMachines
  /\ platOut = <<>>

NextPlatform == ResolvePlatform

SpecPlatform == InitPlatform /\ [][NextPlatform]_vars

\* ============================================================== claims
RegularNamed(item, base) ==
  /\ item.isfile
  /\ Len(item.name) > 0
  /\ item.name[Len(item.name)] = base

HasRegular(archive, base) ==
  \E i \in DOMAIN archive.members : RegularNamed(archive.members[i], base)

\* bytes of the first regular-file entry with that base name
FirstData(archive, base) ==
  LET i == CHOOSE k \in DOMAIN archive.members :
             /\ RegularNamed(archive.members[k], base)
             /\ \A j \in DOMAIN archive.members :
                  RegularNamed(archive.members[j], base) => k <= j
  IN archive.members[i].data

InstalledExe(archive) ==
  [exists |-> TRUE, data |-> FirstData(archive, "mcpx"), mode |-> 493]

ReleaseExe == [exists |-> TRUE, data |-> <<1, 2>>, mode |-> 493]

\* C1: in _extract_binary, once the executable has been extracted, every
\* failure of the man page step (unreadable entry, mkdir, open, write,
\* chmod) is swallowed: the call returns normally with no exception and the
\* executable at output_path keeps its content and mode 0755.
C1_DocFailureSwallowed ==
  \A p \in Procs :
    frame[p].docFail # NoErr =>
      /\ frame[p].pc = "x_done"
      /\ frame[p].err = NoErr
      /\ fs_bin = InstalledExe(frame[p].archive)

C1_Witness ==
  \E p \in Procs :
    /\ frame[p].pc = "x_done"
    /\ dataRoot = "blocked"
    /\ frame[p].docFail = OSError("mkdir_fails")
    /\ fs_bin.mode = 493

\* C2: every ensure_binary call that returns a path, whatever calls came
\* before it, returns one whose file holds the complete mcpx entry of the
\* release archive with mode 0755.
C2_ReturnedBinaryUsable ==
  \A p \in Procs :
    (frame[p].caller \in {"api", "main"} /\ frame[p].acquired) =>
      frame[p].ret = ReleaseExe

\* C3: a call made while the cache path exists and force is false returns
\* that path at once: no network access, no temporary file, nothing written
\* to the filesystem, whatever the opt-out flag and the platform are.
C3_CacheHitNoSideEffects ==
  \A p \in Procs :
    LET f == frame[p] IN
    ( /\ f.caller \in {"api", "main"}
      /\ f.pc # "eb_check"
      /\ f.snap.bin.exists
      /\ ~f.force ) =>
        /\ f.acquired
        /\ f.net = 0
        /\ f.ret = f.snap.bin
        /\ fs_bin = f.snap.bin
        /\ fs_man = f.snap.man
        /\ cacheDir = f.snap.cacheDir
        /\ tmpOnDisk = f.snap.tmp
        /\ f.pc \in {"eb_returned", "replaced", "main_except", "main_returned",
                     "main_uncaught"}

C3_Witness ==
  \E p \in Procs :
    /\ frame[p].pc = "eb_returned"
    /\ frame[p].caller = "api"
    /\ ~frame[p].force
    /\ frame[p].snap.bin.exists
    /\ frame[p].env.skip = "1"
    /\ frame[p].env.plat[1] = <<"W","i","n","d","o","w","s">>
    /\ frame[p].net = 0

CallEnded(f) ==
  /\ f.caller \in {"api", "main"}
  /\ f.pc \in {"eb_returned", "eb_raised", "replaced", "main_except",
               "main_returned", "main_uncaught"}

\* C4: the temporary archive file never outlives the call: whenever
\* ensure_binary has returned or raised, the temporary file it created does
\* not exist.
C4_TempFileNeverOutlivesCall ==
  \A p \in Procs :
    CallEnded(frame[p]) => frame[p].callId \notin tmpOnDisk

\* C5: every run of main() ends in one of three outcomes: replaced by the
\* acquired binary after a successful acquisition; replaced by the fallback
\* after a failed acquisition; or, after a failed acquisition and a failed
\* lookup, exactly one diagnostic line and return 1.  No failure escapes
\* main as an uncaught exception.
C5_LauncherOutcomes ==
  \A p \in Procs :
    LET f == frame[p] IN
    f.caller = "main" =>
      /\ f.pc # "main_uncaught"
      /\ f.pc \in {"replaced", "main_returned"} =>
           \/ /\ f.outcome = "exec_primary"
              /\ f.acquired
              /\ f.execd = <<BinaryPath, BinaryPath>> \o Tail(f.sysargv)
           \/ /\ f.outcome = "exec_fallback"
              /\ ~f.acquired
              /\ f.execd = <<FallbackPath, FallbackPath>> \o Tail(f.sysargv)
           \/ /\ f.outcome = "diagnostic"
              /\ ~f.acquired
              /\ Len(f.stderr) = 1
              /\ f.exit = 1

\* C6: with MCPX_GO_SKIP_DOWNLOAD=1 and no binary at the cache path,
\* ensure_binary raises the descriptive RuntimeError before any network
\* call, platform resolution, directory creation or temporary file: the
\* filesystem is left unchanged.
C6_SkipFailsFast ==
  \A p \in Procs :
    LET f == frame[p] IN
    ( /\ f.caller \in {"api", "main"}
      /\ f.pc # "eb_check"
      /\ f.env.skip = "1"
      /\ ~f.snap.bin.exists ) =>
        /\ ~f.acquired
        /\ f.net = 0
        /\ fs_bin = f.snap.bin
        /\ fs_man = f.snap.man
        /\ cacheDir = f.snap.cacheDir
        /\ tmpOnDisk = f.snap.tmp
        /\ f.pc \in {"eb_raised", "replaced", "main_returned", "main_uncaught"}
        /\ f.pc = "eb_raised" =>
             /\ f.err.type = "RuntimeError"
             /\ f.err.msg = "bundled binary download skipped by MCPX_GO_SKIP_DOWNLOAD=1"

C6_Witness ==
  \E p \in Procs :
    /\ frame[p].pc = "eb_raised"
    /\ frame[p].env.skip = "1"
    /\ frame[p].env.plat[1] = <<"W","i","n","d","o","w","s">>
    /\ ~frame[p].snap.bin.exists
    /\ ~cacheDir
    /\ frame[p].err.msg = "bundled binary download skipped by MCPX_GO_SKIP_DOWNLOAD=1"

\* C7: for a readable archive with no regular-file entry whose base name is
\* mcpx, _extract_binary raises "archive did not contain mcpx binary" and
\* writes nothing: output_path and the man page path are as before the call,
\* even if the archive has an mcpx.1 entry.
C7_MissingBinaryWritesNothing ==
  \A p \in Procs :
    LET f == frame[p] IN
    ( /\ f.caller = "test"
      /\ f.pc # "x_open"
      /\ f.archive.ok
      /\ ~HasRegular(f.archive, "mcpx") ) =>
        /\ f.pc = "x_raised"
        /\ f.err = RuntimeError("archive did not contain mcpx binary", <<>>)
        /\ fs_bin = f.snap.bin
        /\ fs_man = f.snap.man

C7_Witness ==
  \E p \in Procs :
    /\ frame[p].pc = "x_raised"
    /\ frame[p].err.msg = "archive did not contain mcpx binary"
    /\ HasRegular(frame[p].archive, "mcpx.1")
    /\ \E i \in DOMAIN frame[p].archive.members :
         /\ ~frame[p].archive.members[i].isfile
         /\ frame[p].archive.members[i].name = <<"mcpx">>
    /\ fs_bin.exists
    /\ fs_bin.data = <<6, 6, 6>>
    /\ ~fs_man.exists

\* C8: for an archive with a regular-file mcpx entry and a regular-file
\* mcpx.1 entry (any path prefix) and a writable documentation root, a call
\* in which no step fails installs both: output_path holds the mcpx bytes
\* with mode 0755, the man page path holds the mcpx.1 bytes with mode 0644
\* (no execute bit); and the executable is complete and chmod'ed before the
\* man page step starts.
C8_BothInstalled ==
  \A p \in Procs :
    LET f == frame[p] IN
    ( /\ f.caller = "test"
      /\ f.archive.ok
      /\ HasRegular(f.archive, "mcpx")
      /\ HasRegular(f.archive, "mcpx.1")
      /\ dataRoot = "writable" ) =>
        /\ (f.pc = "x_done" /\ f.docFail = NoErr) =>
             /\ fs_bin = InstalledExe(f.archive)
             /\ fs_man = [exists |-> TRUE, data |-> FirstData(f.archive, "mcpx.1"),
                          mode |-> 420]
             /\ (fs_man.mode \div 64) % 2 = 0
        /\ (f.pc = "x_man" \/ f.dest = "man") => fs_bin = InstalledExe(f.archive)

C8_Witness ==
  \E p \in Procs :
    /\ frame[p].pc = "x_done"
    /\ frame[p].docFail = NoErr
    /\ dataRoot = "writable"
    /\ fs_bin = [exists |-> TRUE, data |-> <<3>>, mode |-> 493]
    /\ fs_man = [exists |-> TRUE, data |-> <<7, 8>>, mode |-> 420]
    /\ frame[p].snap.bin.exists

\* what str.lower() gives for each reported name
LowerTable ==
  { << <<"D","a","r","w","i","n">>, <<"d","a","r","w","i","n">> >>,
    << <<"D","A","R","W","I","N">>, <<"d","a","r","w","i","n">> >>,
    << <<"L","i","n","u","x">>, <<"l","i","n","u","x">> >>,
    << <<"l","i","n","u","x">>, <<"l","i","n","u","x">> >>,
    << <<"W","i","n","d","o","w","s">>, <<"w","i","n","d","o","w","s">> >>,
    << <<"F","r","e","e","B","S","D">>, <<"f","r","e","e","b","s","d">> >>,
    << <<"J","a","v","a">>, <<"j","a","v","a">> >>,
    << <<>>, <<>> >>,
    << <<"x","8","6","_","6","4">>, <<"x","8","6","_","6","4">> >>,
    << <<"A","M","D","6","4">>, <<"a","m","d","6","4">> >>,
    << <<"a","m","d","6","4">>, <<"a","m","d","6","4">> >>,
    << <<"a","r","m","6","4">>, <<"a","r","m","6","4">> >>,
    << <<"A","R","M","6","4">>, <<"a","r","m","6","4">> >>,
    << <<"a","a","r","c","h","6","4">>, <<"a","a","r","c","h","6","4">> >>,
    << <<"i","3","8","6">>, <<"i","3","8","6">> >>,
    << <<"a","r","m","v","7","l">>, <<"a","r","m","v","7","l">> >> }

Lowered(raw) == (CHOOSE t \in LowerTable : t[1] = raw)[2]

ExpectedOs(low) ==
  IF low = <<"d","a","r","w","i","n">> THEN "darwin"
  ELSE IF low = <<"l","i","n","u","x">> THEN "linux"
  ELSE "none"

ExpectedArch(low) ==
  IF low \in { <<"x","8","6","_","6","4">>, <<"a","m","d","6","4">> } THEN "amd64"
  ELSE IF low \in { <<"a","r","m","6","4">>, <<"a","a","r","c","h","6","4">> } THEN "arm64"
  ELSE "none"

\* the table of C9, with the failing call's message naming the value "named"
PlatformTable(namedOs, namedMachine) ==
  platOut # <<>> =>
    LET r == platOut[1]
        os == ExpectedOs(Lowered(platIn[1]))
        arch == ExpectedArch(Lowered(platIn[2]))
    IN  /\ os = "none" =>
             /\ ~r.ok
             /\ r.err = RuntimeError("unsupported platform", namedOs)
        /\ (os # "none" /\ arch = "none") =>
             /\ ~r.ok
             /\ r.err = RuntimeError("unsupported architecture", namedMachine)
        /\ (os # "none" /\ arch # "none") =>
             /\ r.ok
             /\ r.goos = os
             /\ r.goarch = arch
             /\ r.err = NoErr

\* C9 as stated: resolve_platform lower-cases both names and maps them
\* through the fixed table; an unknown OS fails with "unsupported platform"
\* and an unknown machine with "unsupported architecture", each naming the
\* raw reported value; the OS is checked first.
C9_NamesRawValue == PlatformTable(platIn[1], platIn[2])

\* C9 amended: as above, but the error names the lower-cased value, not the
\* raw reported one.
C9_NamesLoweredValue == PlatformTable(Lowered(platIn[1]), Lowered(platIn[2]))

C9_Witness ==
  /\ platOut # <<>>
  /\ platIn = << <<"W","i","n","d","o","w","s">>, <<"i","3","8","6">> >>
  /\ platOut[1].err = RuntimeError("unsupported platform", <<"w","i","n","d","o","w","s">>)

\* C10: in every interleaving of two ensure_binary(force=False) calls that
\* start on an empty cache, neither returns the cache path while the file
\* there is incomplete or not yet executable, and once both have returned
\* the file holds the complete executable with mode 0755.
C10_NoHalfWrittenReturn ==
  /\ \A p \in Procs :
       (frame[p].pc = "eb_returned") =>
          /\ frame[p].ret.exists
          /\ frame[p].ret.data = <<1, 2>>
          /\ frame[p].ret.mode = 493
  /\ (\A p \in Procs : frame[p].pc = "eb_returned") => fs_bin = ReleaseExe

====
